---------------------------- MODULE Spec2Model ----------------------------
(***************************************************************************)
(* A model of feeder/push-data.py: the OpenSearchBulkUploader class        *)
(* (type detection, record enrichment, bulk payload construction, the bulk *)
(* upload and its response handling) and the main() pipeline around it.    *)
(*                                                                         *)
(* Python strings are sequences of one-character strings, so that          *)
(* str.lower(), the substring test `in`, the format f"{n:04d}" and string  *)
(* concatenation are computed character by character.                      *)
(***************************************************************************)
EXTENDS Integers, Sequences, FiniteSets, TLC

VARIABLES
    pc,               \* where main() stands
    data_type,        \* self.data_type (--data-type)
    index_name,       \* self.index_name (--index)
    organization_id,  \* args.org_id: <<>> is None, <<s>> is the string s
    file,             \* what the path json_file holds on disk
    file_opened,      \* open(file_path) was attempted
    records,          \* the list `data` / `records`, enriched in place
    bulk_data,        \* the payload prepare_bulk_data returned: <<>> none yet, <<p>> p
    detected,         \* detected_data_type (line 129): <<>> not computed yet
    requests,         \* the HTTP requests issued on self.session, in order
    template_ok,      \* what create_index_template returned: <<>> not called yet
    response,         \* the answer to the bulk POST: <<>> none yet
    success,          \* what upload_json_file returned: <<>> not returned
    printed,          \* the error details bulk_upload printed, in order
    exit_code         \* the process exit status: <<>> still running

vars == <<pc, data_type, index_name, organization_id, file, file_opened, records,
          bulk_data, detected, requests, template_ok, response, success, printed,
          exit_code>>

----------------------------------------------------------------------------
(* Bounds of the model *)

\* the longest record list (an input file holds any number of records)
MaxRecords == 2
\* a metric name is the concatenation of at most this many Fragments
MaxFrags == 2
\* the longest items array of a bulk response
MaxItems == 3

----------------------------------------------------------------------------
(* Strings *)

UpperCase == <<"A","B","C","D","E","F","G","H","I","J","K","L","M",
               "N","O","P","Q","R","S","T","U","V","W","X","Y","Z">>
LowerCase == <<"a","b","c","d","e","f","g","h","i","j","k","l","m",
               "n","o","p","q","r","s","t","u","v","w","x","y","z">>

\* str.lower() on one character
LowerChar(c) ==
    IF \E i \in 1..Len(UpperCase) : UpperCase[i] = c
    THEN LowerCase[CHOOSE i \in 1..Len(UpperCase) : UpperCase[i] = c]
    ELSE c

\* str.lower()
lower(s) == [i \in 1..Len(s) |-> LowerChar(s[i])]

\* Python's `sub in s` on strings
RECURSIVE InFrom(_, _, _)
InFrom(sub, s, i) ==
    IF i + Len(sub) - 1 > Len(s) THEN FALSE
    ELSE IF SubSeq(s, i, i + Len(sub) - 1) = sub THEN TRUE
    ELSE InFrom(sub, s, i + 1)

In(sub, s) == InFrom(sub, s, 1)

DigitChars == <<"0","1","2","3","4","5","6","7","8","9">>

\* str(n) for n >= 0
RECURSIVE DecimalDigits(_)
DecimalDigits(n) ==
    IF n < 10 THEN <<DigitChars[n + 1]>>
    ELSE DecimalDigits(n \div 10) \o <<DigitChars[(n % 10) + 1]>>

\* the width of the format spec "04d" (lines 138 and 142)
PadWidth == 4

\* f"{n:04d}": sign-aware zero padding to a minimum width, never truncating
Format04d(n) ==
    LET digits == DecimalDigits(IF n < 0 THEN -n ELSE n)
        sign   == IF n < 0 THEN <<"-">> ELSE <<>>
        fill   == PadWidth - Len(sign) - Len(digits)
    IN  sign \o [i \in 1..(IF fill > 0 THEN fill ELSE 0) |-> "0"] \o digits

s_auto          == <<"a","u","t","o">>
s_vmiLatency    == <<"v","m","i","L","a","t","e","n","c","y">>
s_dvLatency     == <<"d","v","L","a","t","e","n","c","y">>
s_podLatency    == <<"p","o","d","L","a","t","e","n","c","y">>
s_generic       == <<"g","e","n","e","r","i","c">>
s_unknown       == <<"u","n","k","n","o","w","n">>
s_dv_latency    == <<"d","v","-","l","a","t","e","n","c","y">>
s_vmi_latency   == <<"v","m","i","-","l","a","t","e","n","c","y">>
s_pod_latency   == <<"p","o","d","-","l","a","t","e","n","c","y">>
s_direct_api    == <<"d","i","r","e","c","t","-","a","p","i">>
s_dv            == <<"d","v">>
s_datavolume    == <<"d","a","t","a","v","o","l","u","m","e">>
s_vmi           == <<"v","m","i">>
s_virtualmachine == <<"v","i","r","t","u","a","l","m","a","c","h","i","n","e">>
s_pod           == <<"p","o","d">>

\* default_index_name (line 13) and the --index of the usage examples (line 219)
default_index_name == <<"k","u","b","e","-","b","u","r","n","e","r","-","d","a","t","a">>
my_vmi_data        == <<"m","y","-","v","m","i","-","d","a","t","a">>

\* the choices of --data-type (line 273)
DataTypeChoices == {s_auto, s_vmiLatency, s_dvLatency, s_podLatency, s_generic}

----------------------------------------------------------------------------
(* JSON values and records *)

\* A JSON value as json.load returns it: an int, a bool or a str.
IntVal(n)  == [t |-> "int",  n |-> n, s |-> <<>>]
BoolVal(b) == [t |-> "bool", n |-> IF b THEN 1 ELSE 0, s |-> <<>>]
StrVal(s)  == [t |-> "str",  n |-> 0, s |-> s]

\* isinstance(v, int): in Python bool is a subclass of int, so True and False pass
isinstance_int(v) == v.t \in {"int", "bool"}

\* An element of the loaded list: a dict (its fields a function from key to
\* value) or any other JSON value.
Dict(f)   == [isDict |-> TRUE, fields |-> f]
NotADict  == [isDict |-> FALSE, fields |-> <<>>]

Has(rec, key) == key \in DOMAIN rec.fields

\* record[key] = value
SetItem(rec, key, value) ==
    [rec EXCEPT !.fields =
        [k \in (DOMAIN rec.fields) \cup {key} |->
            IF k = key THEN value ELSE rec.fields[k]]]

\* record.get(key, default)
Get(rec, key, default) == IF Has(rec, key) THEN rec.fields[key] ELSE default

----------------------------------------------------------------------------
(* get_data_type_from_records, lines 29-44 *)

get_data_type_swapped(recs) ==
    IF recs = <<>> THEN s_unknown
    ELSE LET metric_name == lower(Get(recs[1], "metricName", StrVal(<<>>)).s)
         IN  IF In(s_vmi, metric_name) \/ In(s_virtualmachine, metric_name)
             THEN s_vmi_latency
             ELSE IF In(s_dv, metric_name) \/ In(s_datavolume, metric_name)
             THEN s_dv_latency
             ELSE IF In(s_pod, metric_name) THEN s_pod_latency
             ELSE s_generic

get_data_type_from_records(recs) ==
    IF recs = <<>> THEN s_unknown
    ELSE LET sample_record == recs[1]
             metric_name == lower(Get(sample_record, "metricName", StrVal(<<>>)).s)
         IN  IF In(s_dv, metric_name) \/ In(s_datavolume, metric_name)
             THEN s_dv_latency
             ELSE IF In(s_vmi, metric_name) \/ In(s_virtualmachine, metric_name)
             THEN s_vmi_latency
             ELSE IF In(s_pod, metric_name) THEN s_pod_latency
             ELSE s_generic

\* sample_record.get raises AttributeError on an element that is no dict, and
\* .lower() raises it on a metricName that is no string
get_data_type_raises(recs) ==
    /\ recs # <<>>
    /\ \/ ~recs[1].isDict
       \/ Has(recs[1], "metricName") /\ recs[1].fields["metricName"].t # "str"

----------------------------------------------------------------------------
(* prepare_bulk_data, lines 124-159 *)

\* `if organization_id:` is false for None and for the empty string
Truthy(org) == org # <<>> /\ org[1] # <<>>

\* line 129
DetectedDataType(recs, mode) ==
    IF mode = s_auto THEN get_data_type_from_records(recs) ELSE mode

\* lines 137-138 and 141-142: one of the two zero-padding rewrites
ZeroPadField(rec, key) ==
    IF Has(rec, key) /\ isinstance_int(rec.fields[key])
    THEN SetItem(rec, key, StrVal(Format04d(rec.fields[key].n)))
    ELSE rec

\* an existing @timestamp and an existing organizationID kept (setdefault)
EnrichRecord_keeping_existing(rec, org, detected_data_type) ==
    LET r1 == IF Truthy(org) /\ ~Has(rec, "organizationID")
              THEN SetItem(rec, "organizationID", StrVal(org[1]))
              ELSE rec
        r2 == ZeroPadField(r1, "jobIteration")
        r3 == ZeroPadField(r2, "replica")
        r4 == SetItem(r3, "source", StrVal(s_direct_api))
        r5 == SetItem(r4, "dataType", StrVal(detected_data_type))
    IN  IF Has(r5, "timestamp") /\ ~Has(r5, "@timestamp")
        THEN SetItem(r5, "@timestamp", r5.fields["timestamp"])
        ELSE r5

\* lines 132-150: the body of the loop up to the action line, on one record
EnrichRecord(rec, org, detected_data_type) ==
    LET r1 == IF Truthy(org) THEN SetItem(rec, "organizationID", StrVal(org[1]))
              ELSE rec
        r2 == ZeroPadField(r1, "jobIteration")
        r3 == ZeroPadField(r2, "replica")
        r4 == SetItem(r3, "source", StrVal(s_direct_api))
        r5 == SetItem(r4, "dataType", StrVal(detected_data_type))
    IN  IF Has(r5, "timestamp")
        THEN SetItem(r5, "@timestamp", r5.fields["timestamp"])
        ELSE r5

\* the suffix added to every category, "generic" included
FinalIndexName_always_suffixed(prefix, detected_data_type) ==
    prefix \o <<"-">> \o detected_data_type

\* lines 153-154
FinalIndexName(prefix, detected_data_type) ==
    LET index_suffix == IF detected_data_type # s_generic
                        THEN <<"-">> \o detected_data_type
                        ELSE <<>>
    IN  prefix \o index_suffix

\* A payload is text.  json.dumps writes one JSON document as one non-empty
\* line holding no newline (it escapes them), so a payload is a sequence of
\* such lines and newline characters: ActionLine(name) is
\* json.dumps({"index": {"_index": name}}), DocLine(rec) is json.dumps(rec),
\* NL is "\n".
ActionLine(name) == [kind |-> "action", index |-> name, doc |-> Dict(<<>>)]
DocLine(rec)     == [kind |-> "doc", index |-> <<>>, doc |-> rec]
NL               == [kind |-> "nl", index |-> <<>>, doc |-> Dict(<<>>)]

\* "\n".join(lines)
RECURSIVE Join(_)
Join(lines) ==
    IF lines = <<>> THEN <<>>
    ELSE IF Len(lines) = 1 THEN <<lines[1]>>
    ELSE <<lines[1], NL>> \o Join(Tail(lines))

\* the records as the loop leaves them (they are mutated in place)
EnrichAll(recs, org, mode) ==
    [i \in 1..Len(recs) |-> EnrichRecord(recs[i], org, DetectedDataType(recs, mode))]

\* the list bulk_data after the loop: lines 155-157 append two lines per record
BulkLines(recs, org, mode, prefix) ==
    LET det == DetectedDataType(recs, mode)
    IN  [k \in 1..(2 * Len(recs)) |->
            IF k % 2 = 1
            THEN ActionLine(FinalIndexName(prefix, det))
            ELSE DocLine(EnrichRecord(recs[k \div 2], org, det))]

\* line 159: the returned payload
prepare_bulk_data(recs, org, mode, prefix) ==
    Join(BulkLines(recs, org, mode, prefix)) \o <<NL>>

\* An element that is no dict makes the loop body raise TypeError (item
\* assignment or `in` on a value that supports neither); in mode auto the
\* detection may raise first.  Nothing in upload_json_file or main catches it.
prepare_raises(recs, mode) ==
    \/ mode = s_auto /\ get_data_type_raises(recs)
    \/ \E i \in 1..Len(recs) : ~recs[i].isDict

----------------------------------------------------------------------------
(* The HTTP exchange *)

\* What a request meets: a transport failure (requests raises ConnectionError,
\* Timeout, ...: a RequestException), or a response with a status; the bulk
\* endpoint answers a non-error status with the body of its wire protocol,
\* {"errors": ..., "items": [...]}.
ErrorDetails == {"mapper_parsing_exception", "version_conflict"}

\* One entry of "items": the action it answers ("index" or another one, such
\* as "create") and that action's "error" object, when it has one.
Item(action, error) == [action |-> action, error |-> error]

ItemKinds ==
    {Item("index", <<>>), Item("create", <<>>)}
    \cup {Item(a, <<e>>) : a \in {"index", "create"}, e \in ErrorDetails}

StatusCodes == {200, 201, 400, 413, 500, 503}

TransportFailure == [net |-> "error", status |-> 0, errors |-> "absent", items |-> <<>>]
HttpResponse(status, errors, items) ==
    [net |-> "ok", status |-> status, errors |-> errors, items |-> items]

\* response.raise_for_status(): HTTPError for a 4xx or 5xx status
raise_for_status(resp) == 400 <= resp.status /\ resp.status < 600

\* the try block of lines 166-168 raised a RequestException
request_failed(resp) == resp.net = "error" \/ raise_for_status(resp)

\* the error of every item printed, whatever action it answers
RECURSIVE PrintedErrors_any_action(_)
PrintedErrors_any_action(items) ==
    IF items = <<>> THEN <<>>
    ELSE (IF Head(items).error # <<>> THEN <<Head(items).error[1]>> ELSE <<>>)
         \o PrintedErrors_any_action(Tail(items))

\* lines 173-175: the error details printed, in the order of the loop
RECURSIVE PrintedErrors(_)
PrintedErrors(items) ==
    IF items = <<>> THEN <<>>
    ELSE LET item == Head(items)
         IN  (IF item.action = "index" /\ item.error # <<>>
              THEN <<item.error[1]>> ELSE <<>>) \o PrintedErrors(Tail(items))

\* lines 166-183: what bulk_upload returns and what it prints
bulk_upload(resp) ==
    IF request_failed(resp) THEN [ok |-> FALSE, printed |-> <<>>]
    ELSE IF resp.errors = "true"
    THEN [ok |-> FALSE, printed |-> PrintedErrors(resp.items)]
    ELSE [ok |-> TRUE, printed |-> <<>>]

\* lines 115-122: what create_index_template returns
create_index_template(resp) == ~request_failed(resp)

TemplateRequest == [method |-> "PUT", path |-> "/_index_template/kube-burner-template"]
BulkRequest     == [method |-> "POST", path |-> "/_bulk"]

----------------------------------------------------------------------------
(* upload_json_file, lines 185-204, and main, lines 300-311 *)

\* What the path holds: no file; a file that is not JSON; a JSON file whose
\* top-level value is an object, an array or anything else.
NoFile          == [kind |-> "missing",   data |-> <<>>]
MalformedFile   == [kind |-> "malformed", data |-> <<>>]
ScalarFile      == [kind |-> "scalar",    data |-> <<>>]
ObjectFile(rec) == [kind |-> "object",    data |-> <<rec>>]
ArrayFile(recs) == [kind |-> "array",     data |-> recs]

\* the shape check of lines 194-196 left out
input_rejected_unless_parsed(f) == f.kind \in {"missing", "malformed"}

\* lines 188-196 and 202-204: the input is rejected (return False)
input_rejected(f) == f.kind \in {"missing", "malformed", "scalar"}

\* lines 192-193: the list handed to prepare_bulk_data
loaded_data(f) == f.data

\* a failed template registration made fatal
ExitCode_template_fatal(ok) == IF ok /\ template_ok = <<TRUE>> THEN 0 ELSE 1

\* lines 306-311
ExitCode(ok) == IF ok THEN 0 ELSE 1

----------------------------------------------------------------------------
(* The steps of a run.  main() is sequential: the template PUT, then         *)
(* upload_json_file (read the input, build the payload, POST it), then exit. *)

\* line 301 (lines 114-122): the PUT is sent whatever comes back
CreateIndexTemplateFrom(answers) ==
    /\ pc = "start"
    /\ \E resp \in answers :
          template_ok' = <<create_index_template(resp)>>
    /\ requests' = Append(requests, TemplateRequest)
    /\ pc' = "template_done"
    /\ UNCHANGED <<data_type, index_name, organization_id, file, file_opened,
                   records, bulk_data, detected, response, success, printed,
                   exit_code>>

\* lines 187-196 and 202-204: open and parse the file, check its shape
ReadInput ==
    /\ pc = "template_done"
    /\ file_opened' = TRUE
    /\ IF input_rejected(file)
       THEN /\ success' = <<FALSE>>
            /\ pc' = "returned"
            /\ UNCHANGED records
       ELSE /\ records' = loaded_data(file)
            /\ pc' = "loaded"
            /\ UNCHANGED success
    /\ UNCHANGED <<data_type, index_name, organization_id, file, bulk_data,
                   detected, requests, template_ok, response, printed, exit_code>>

\* line 199 (lines 124-159).  An exception raised here is caught nowhere: the
\* interpreter prints the traceback and the process ends with status 1.
PrepareBulkData ==
    /\ pc = "loaded"
    /\ IF prepare_raises(records, data_type)
       THEN /\ pc' = "done"
            /\ exit_code' = <<1>>
            /\ UNCHANGED <<records, bulk_data, detected>>
       ELSE /\ detected' = <<DetectedDataType(records, data_type)>>
            /\ records' = EnrichAll(records, organization_id, data_type)
            /\ bulk_data' = <<prepare_bulk_data(records, organization_id,
                                                data_type, index_name)>>
            /\ pc' = "prepared"
            /\ UNCHANGED exit_code
    /\ UNCHANGED <<data_type, index_name, organization_id, file, file_opened,
                   requests, template_ok, response, success, printed>>

\* line 200 (lines 161-183): one POST of the payload, one answer
BulkUploadFrom(answers) ==
    /\ pc = "prepared"
    /\ \E resp \in answers :
          /\ response' = <<resp>>
          /\ success' = <<bulk_upload(resp).ok>>
          /\ printed' = bulk_upload(resp).printed
    /\ requests' = Append(requests, BulkRequest)
    /\ pc' = "returned"
    /\ UNCHANGED <<data_type, index_name, organization_id, file, file_opened,
                   records, bulk_data, detected, template_ok, exit_code>>

\* a failed upload sent again instead of reported
Exit_retrying ==
    /\ pc = "returned"
    /\ IF success = <<FALSE>> /\ bulk_data # <<>>
       THEN pc' = "prepared" /\ UNCHANGED exit_code
       ELSE pc' = "done" /\ exit_code' = <<ExitCode(success[1])>>
    /\ UNCHANGED <<data_type, index_name, organization_id, file, file_opened,
                   records, bulk_data, detected, requests, template_ok, response,
                   success, printed>>

\* lines 306-311
Exit ==
    /\ pc = "returned"
    /\ exit_code' = <<ExitCode(success[1])>>
    /\ pc' = "done"
    /\ UNCHANGED <<data_type, index_name, organization_id, file, file_opened,
                   records, bulk_data, detected, requests, template_ok, response,
                   success, printed>>

\* a call of get_data_type_from_records on its own
Detect ==
    /\ pc = "detect"
    /\ detected' = <<get_data_type_from_records(records)>>
    /\ pc' = "detected"
    /\ UNCHANGED <<data_type, index_name, organization_id, file, file_opened,
                   records, bulk_data, requests, template_ok, response, success,
                   printed, exit_code>>

----------------------------------------------------------------------------
(* Inputs *)

SeqsUpTo(S, n) == UNION {[1..k -> S] : k \in 0..n}

\* an optional dict entry: <<>> leaves the key out
Entry(key, opt) == IF opt = <<>> THEN <<>> ELSE key :> opt[1]

Fragments ==
    { <<"d">>, <<"V">>, <<"x">>,
      <<"v","m","i">>, <<"p","o","d">>, <<"P","O","D">>,
      <<"L","a","t","e","n","c","y">>,
      <<"D","a","t","a","V","o","l","u","m","e">>,
      <<"v","i","r","t","u","a","l","M","a","c","h","i","n","e">> }

RECURSIVE NamesUpTo(_)
NamesUpTo(k) ==
    IF k = 0 THEN {<<>>}
    ELSE LET shorter == NamesUpTo(k - 1)
         IN  shorter \cup {n \o f : n \in shorter, f \in Fragments}

MetricNames == NamesUpTo(MaxFrags)

s_uuid == <<"u","1">>
s_old  == <<"o","l","d">>
s_acme == <<"a","c","m","e">>
s_t0   == <<"2","0","2","3">>
s_t1   == <<"2","0","2","4">>

\* records that follow the first one of a list
TailRecords ==
    { Dict("uuid" :> StrVal(s_uuid)),
      Dict(("metricName" :> StrVal(s_podLatency)) @@ ("jobIteration" :> IntVal(7))),
      Dict(("metricName" :> StrVal(s_dvLatency)) @@ ("timestamp" :> StrVal(s_t1))) }

NamedRecord(name) ==
    Dict(("metricName" :> StrVal(name)) @@ ("uuid" :> StrVal(s_uuid)))

RecordLists(firsts) ==
    {<<>>} \cup {<<first>> \o rest :
                    first \in firsts, rest \in SeqsUpTo(TailRecords, MaxRecords - 1)}

\* the record lists get_data_type_from_records is applied to
DetectInputs ==
    RecordLists({Dict("uuid" :> StrVal(s_uuid))}
                \cup {NamedRecord(name) : name \in MetricNames})

\* the integers, booleans and strings jobIteration and replica are drawn from
JobIterationChoices ==
    {<<>>, <<IntVal(3)>>, <<IntVal(12345)>>, <<StrVal(<<"7">>)>>, <<BoolVal(TRUE)>>}
ReplicaChoices ==
    {<<>>, <<IntVal(0)>>, <<StrVal(<<"r","1">>)>>}
MetricNameChoices ==
    {<<>>, <<StrVal(s_vmiLatency)>>, <<StrVal(<<"P","o","d","R","e","a","d","y">>)>>}

\* a raw record of the input file
RawRecord(m, j, r, ts, ats, old) ==
    Dict(Entry("metricName", m) @@ Entry("jobIteration", j) @@ Entry("replica", r)
         @@ Entry("timestamp", ts) @@ Entry("@timestamp", ats)
         @@ Entry("organizationID", old) @@ Entry("source", old)
         @@ Entry("dataType", old) @@ ("uuid" :> StrVal(s_uuid)))

RawRecords ==
    { RawRecord(m, j, r, ts, ats, old) :
        m \in MetricNameChoices, j \in JobIterationChoices, r \in ReplicaChoices,
        ts \in {<<>>, <<StrVal(s_t1)>>}, ats \in {<<>>, <<StrVal(s_t0)>>},
        old \in {<<>>, <<StrVal(s_old)>>} }

\* args.org_id: None, the empty string, a tenant
OrgChoices == {<<>>, <<<<>>>>, <<s_acme>>}

\* what the server may answer to the bulk POST
Responses ==
    {TransportFailure}
    \cup { HttpResponse(st, e, items) :
             st \in StatusCodes, e \in {"true", "false", "absent"},
             items \in SeqsUpTo(ItemKinds, MaxItems) }

\* what the server may answer to the template PUT (its body is never read)
TemplateAnswers ==
    {TransportFailure} \cup {HttpResponse(st, "absent", <<>>) : st \in StatusCodes}

\* the answers a whole run is checked against
RunResponses ==
    { TransportFailure,
      HttpResponse(500, "absent", <<>>),
      HttpResponse(200, "false", <<Item("index", <<>>)>>),
      HttpResponse(200, "absent", <<>>),
      HttpResponse(200, "true", <<Item("index", <<"version_conflict">>),
                                  Item("index", <<>>)>>) }

\* the elements of the input files a whole run is checked against: the record
\* of the end-to-end scenario, a record without timestamp, a record whose
\* metricName is a number, and an array element that is no object
RunElements ==
    { Dict(("metricName" :> StrVal(<<"d","v","R","u","n","n","i","n","g">>))
           @@ ("timestamp" :> StrVal(s_t1)) @@ ("jobIteration" :> IntVal(2))),
      Dict(("metricName" :> StrVal(s_podLatency)) @@ ("uuid" :> StrVal(s_uuid))),
      Dict("metricName" :> IntVal(5)),
      NotADict }

RunFiles ==
    {NoFile, MalformedFile, ScalarFile}
    \cup {ObjectFile(r) : r \in {e \in RunElements : e.isDict}}
    \cup {ArrayFile(l) : l \in SeqsUpTo(RunElements, MaxRecords)}

----------------------------------------------------------------------------
(* Specifications *)

\* A whole run of main(), from the constructed uploader to the exit.
Init ==
    /\ pc = "start"
    /\ data_type \in DataTypeChoices
    /\ index_name = default_index_name
    /\ organization_id \in {<<>>, <<s_acme>>}
    /\ file \in RunFiles
    /\ file_opened = FALSE
    /\ records = <<>>
    /\ bulk_data = <<>>
    /\ detected = <<>>
    /\ requests = <<>>
    /\ template_ok = <<>>
    /\ response = <<>>
    /\ success = <<>>
    /\ printed = <<>>
    /\ exit_code = <<>>

CreateIndexTemplate == CreateIndexTemplateFrom(TemplateAnswers)
BulkUpload == BulkUploadFrom(RunResponses)

Next ==
    \/ CreateIndexTemplate
    \/ ReadInput
    \/ PrepareBulkData
    \/ BulkUpload
    \/ Exit

Spec == Init /\ [][Next]_vars

\* prepare_bulk_data on its own: every mode, tenant and prefix on the lists
\* of raw records, from the point where upload_json_file has loaded them.
InitPrepare ==
    /\ pc = "loaded"
    /\ data_type \in DataTypeChoices
    /\ index_name \in {default_index_name, my_vmi_data}
    /\ organization_id \in OrgChoices
    /\ file \in {ArrayFile(l) : l \in RecordLists(RawRecords)}
    /\ file_opened = TRUE
    /\ records = loaded_data(file)
    /\ bulk_data = <<>>
    /\ detected = <<>>
    /\ requests = <<TemplateRequest>>
    /\ template_ok = <<TRUE>>
    /\ response = <<>>
    /\ success = <<>>
    /\ printed = <<>>
    /\ exit_code = <<>>

SpecPrepare == InitPrepare /\ [][PrepareBulkData]_vars

\* get_data_type_from_records on its own, on lists whose first record has any
\* metric name.
InitDetect ==
    /\ pc = "detect"
    /\ data_type = s_auto
    /\ index_name = default_index_name
    /\ organization_id = <<>>
    /\ records \in DetectInputs
    /\ file = ArrayFile(records)
    /\ file_opened = TRUE
    /\ bulk_data = <<>>
    /\ detected = <<>>
    /\ requests = <<TemplateRequest>>
    /\ template_ok = <<TRUE>>
    /\ response = <<>>
    /\ success = <<>>
    /\ printed = <<>>
    /\ exit_code = <<>>

SpecDetect == InitDetect /\ [][Detect]_vars

\* bulk_upload on its own, on every answer of the server.
InitUpload ==
    /\ pc = "prepared"
    /\ data_type = s_auto
    /\ index_name = default_index_name
    /\ organization_id = <<>>
    /\ file \in {ArrayFile(l) : l \in SeqsUpTo(TailRecords, 1)}
    /\ file_opened = TRUE
    /\ records = EnrichAll(loaded_data(file), organization_id, data_type)
    /\ bulk_data = <<prepare_bulk_data(loaded_data(file), organization_id,
                                       data_type, index_name)>>
    /\ detected = <<DetectedDataType(loaded_data(file), data_type)>>
    /\ requests = <<TemplateRequest>>
    /\ template_ok = <<TRUE>>
    /\ response = <<>>
    /\ success = <<>>
    /\ printed = <<>>
    /\ exit_code = <<>>

BulkUploadAny == BulkUploadFrom(Responses)

SpecUpload == InitUpload /\ [][BulkUploadAny]_vars

----------------------------------------------------------------------------
(* Properties: type detection (SpecDetect) *)

\* sub occurs in s at some position
HasSub(s, sub) ==
    \E i \in 1..(Len(s) - Len(sub) + 1) :
        \A j \in 1..Len(sub) : s[i + j - 1] = sub[j]

\* the category the priority order assigns to a metric name
CategoryOfName(name) ==
    LET n == lower(name)
    IN  IF HasSub(n, s_dv) \/ HasSub(n, s_datavolume) THEN s_dv_latency
        ELSE IF HasSub(n, s_vmi) \/ HasSub(n, s_virtualmachine) THEN s_vmi_latency
        ELSE IF HasSub(n, s_pod) THEN s_pod_latency
        ELSE s_generic

\* the metricName of a raw record, the empty string when it has none
MetricNameOf(rec) ==
    IF "metricName" \in DOMAIN rec.fields THEN rec.fields["metricName"].s ELSE <<>>

\* the category of a record list: a function of its first record alone
CategoryOfList(recs) ==
    IF Len(recs) = 0 THEN s_unknown ELSE CategoryOfName(MetricNameOf(recs[1]))

\* C4: get_data_type_from_records returns 'unknown' for the empty list and
\* otherwise the category of the first record's lower-cased metricName
\* (missing: the empty string) in the priority order dv/datavolume, then
\* vmi/virtualmachine, then pod, then generic; later records play no part.
C4_DetectionByFirstMetricName ==
    pc = "detected" => detected = <<CategoryOfList(records)>>

\* a name holding both "vmi" and "pod" (but not "dv") heads a list whose second
\* record is a dv record, and the list is classified vmi-latency
C4_Witness ==
    /\ pc = "detected"
    /\ Len(records) = 2
    /\ HasSub(lower(MetricNameOf(records[1])), s_vmi)
    /\ HasSub(lower(MetricNameOf(records[1])), s_pod)
    /\ MetricNameOf(records[1]) # lower(MetricNameOf(records[1]))
    /\ MetricNameOf(records[2]) = s_dvLatency
    /\ detected = <<s_vmi_latency>>

----------------------------------------------------------------------------
(* Properties: payload construction and enrichment (SpecPrepare) *)

\* the raw records the payload was built from, and the batch
RawInput == file.data

\* the category of the batch: detected from the first record in mode auto,
\* the caller's mode otherwise
BatchCategory ==
    IF data_type = s_auto THEN CategoryOfList(RawInput) ELSE data_type

\* the index name a category maps to
IndexNameOf(prefix, category) ==
    IF category = s_generic THEN prefix ELSE prefix \o <<"-">> \o category

\* the lines of a text, as str.splitlines() gives them: each newline ends one
RECURSIVE SplitLines(_)
SplitLines(text) ==
    IF text = <<>> THEN <<>>
    ELSE LET ends == {k \in 1..Len(text) : text[k] = NL}
             k == IF ends = {} THEN Len(text) + 1
                  ELSE CHOOSE e \in ends : \A f \in ends : e <= f
         IN  <<SubSeq(text, 1, k - 1)>> \o SplitLines(SubSeq(text, k + 1, Len(text)))

\* C5: the payload of N records, N = 0 included, is exactly 2N lines, none
\* blank, ends with exactly one newline, and its lines 2i-1 and 2i are the
\* action line and the serialized i-th record.
C5_PayloadIsLinePairs ==
    pc = "prepared" =>
        LET text  == bulk_data[1]
            lines == SplitLines(text)
            N     == Len(RawInput)
        IN  /\ text # <<>> /\ text[Len(text)] = NL
            /\ Len(text) >= 2 => text[Len(text) - 1] # NL
            /\ Len(lines) = 2 * N
            /\ \A k \in 1..Len(lines) : lines[k] # <<>>
            /\ \A i \in 1..N :
                  /\ Len(lines[2 * i - 1]) = 1
                  /\ lines[2 * i - 1][1].kind = "action"
                  /\ lines[2 * i] = <<DocLine(records[i])>>

\* C6: every action line of a batch targets one index name, the prefix for
\* category generic and prefix-category otherwise, the category being that of
\* the first record in mode auto and the mode itself otherwise; the records
\* after the first change neither the index name nor any record's dataType.
C6_OneIndexPerBatch ==
    pc = "prepared" =>
        /\ \A k \in 1..Len(bulk_data[1]) :
              bulk_data[1][k].kind = "action" =>
                  bulk_data[1][k].index = IndexNameOf(index_name, BatchCategory)
        /\ \A i \in 1..Len(records) :
              records[i].fields["dataType"] = StrVal(BatchCategory)

\* a generic batch (its first record has no metric name) followed by a dv
\* record goes to the bare prefix, and an explicit mode is used as it is
C6_Witness ==
    /\ pc = "prepared"
    /\ data_type = s_auto
    /\ Len(records) = 2
    /\ BatchCategory = s_generic
    /\ MetricNameOf(RawInput[2]) = s_dvLatency
    /\ bulk_data[1][1] = ActionLine(index_name)
    /\ bulk_data[1][5] = ActionLine(index_name)

\* C7: for every mode and every non-empty batch the dataType written to the
\* records is one of dv-latency, vmi-latency, pod-latency, generic.
C7_DataTypeInClosedSet ==
    pc = "prepared" /\ records # <<>> =>
        \A i \in 1..Len(records) :
            records[i].fields["dataType"].s
                \in {s_dv_latency, s_vmi_latency, s_pod_latency, s_generic}

\* the fields enrichment may write besides jobIteration and replica
TagFields == {"organizationID", "source", "dataType", "@timestamp"}

\* C8: every enriched record has source 'direct-api' and dataType the batch
\* category, organizationID the supplied (non-empty) organization id,
\* @timestamp equal to its timestamp when it has one; no field is deleted,
\* and without jobIteration and replica every other field is unchanged.
C8_EnrichmentTags ==
    pc = "prepared" =>
        \A i \in 1..Len(records) :
            LET old == RawInput[i].fields
                new == records[i].fields
            IN  /\ "source" \in DOMAIN new /\ new["source"] = StrVal(s_direct_api)
                /\ "dataType" \in DOMAIN new /\ new["dataType"] = StrVal(BatchCategory)
                /\ organization_id \notin {<<>>, <<<<>>>>} =>
                      /\ "organizationID" \in DOMAIN new
                      /\ new["organizationID"] = StrVal(organization_id[1])
                /\ "timestamp" \in DOMAIN old =>
                      /\ "@timestamp" \in DOMAIN new
                      /\ new["@timestamp"] = old["timestamp"]
                /\ DOMAIN old \subseteq DOMAIN new
                /\ DOMAIN new \subseteq (DOMAIN old) \cup TagFields
                /\ ("jobIteration" \notin DOMAIN old /\ "replica" \notin DOMAIN old) =>
                      \A k \in (DOMAIN old) \ TagFields : new[k] = old[k]

\* a record that came with its own organizationID, source, dataType and
\* @timestamp, and with a timestamp, has all four overwritten
C8_Witness ==
    /\ pc = "prepared"
    /\ organization_id = <<s_acme>>
    /\ \E i \in 1..Len(records) :
          LET old == RawInput[i].fields
          IN  /\ {"timestamp", "uuid"} \cup TagFields \subseteq DOMAIN old
              /\ "jobIteration" \notin DOMAIN old /\ "replica" \notin DOMAIN old
              /\ old["@timestamp"] # old["timestamp"]
              /\ records[i].fields["@timestamp"] = old["timestamp"]
              /\ records[i].fields["organizationID"] = StrVal(s_acme)
              /\ records[i].fields["uuid"] = old["uuid"]

\* the decimal string of n, left-padded with zeros to width 4
PaddedDecimal(n) ==
    LET d == DecimalDigits(n)
    IN  IF Len(d) >= 4 THEN d ELSE [i \in 1..(4 - Len(d)) |-> "0"] \o d

\* C9: jobIteration and replica, each on its own: an integer n becomes its
\* decimal string zero-padded to width 4 (longer when n >= 10000); an absent
\* field or a non-integer value stays exactly as it was; a second enrichment
\* changes nothing.
C9_ZeroPadding ==
    pc = "prepared" =>
        \A i \in 1..Len(records), key \in {"jobIteration", "replica"} :
            LET old == RawInput[i].fields
                new == records[i].fields
                again == EnrichRecord(records[i], organization_id, BatchCategory).fields
            IN  /\ IF key \in DOMAIN old /\ old[key].t = "int"
                   THEN key \in DOMAIN new /\ new[key] = StrVal(PaddedDecimal(old[key].n))
                   ELSE /\ key \in DOMAIN old <=> key \in DOMAIN new
                        /\ key \in DOMAIN old => new[key] = old[key]
                /\ key \in DOMAIN new <=> key \in DOMAIN again
                /\ key \in DOMAIN new => again[key] = new[key]

----------------------------------------------------------------------------
(* Properties: the bulk upload (SpecUpload) *)

\* the HTTP request succeeded: no transport error and a 2xx status
HttpSucceeded(resp) == resp.net = "ok" /\ resp.status \in 200..299

\* the error objects of the items whose index action carries one, in order
IndexErrors(items) ==
    LET failed == SelectSeq(items, LAMBDA it : it.action = "index" /\ it.error # <<>>)
    IN  [k \in 1..Len(failed) |-> failed[k].error[1]]

----------------------------------------------------------------------------
(* Properties: a whole run (Spec) *)

\* the requests of a kind issued so far
Issued(req) == Cardinality({k \in 1..Len(requests) : requests[k] = req})

\* the input errors: no file, malformed JSON, a top-level value that is
\* neither an object nor an array
InputError == file.kind \in {"missing", "malformed", "scalar"}

\* C1 as claimed: a run whose input is rejected fails with exit code 1, sends
\* no bulk request and has issued no request that changes the datastore (the
\* template PUT, when it succeeds, registers the index template).
C1_NoRequestOnInputError ==
    pc = "done" /\ InputError =>
        /\ success = <<FALSE>>
        /\ exit_code = <<1>>
        /\ Issued(BulkRequest) = 0
        /\ template_ok # <<TRUE>>

\* C1 as amended: a run whose input is rejected fails with exit code 1 and
\* sends no bulk request; nothing is loaded or built, and the one request it
\* has issued is the template PUT, sent before the input was opened.
C1_OnlyTemplateOnInputError ==
    InputError =>
        /\ Issued(BulkRequest) = 0
        /\ records = <<>> /\ bulk_data = <<>>
        /\ ~file_opened => success = <<>>
        /\ pc = "done" =>
              /\ success = <<FALSE>>
              /\ exit_code = <<1>>
              /\ requests = <<TemplateRequest>>

\* a run on a JSON file holding a scalar ends with status 1 after a template
\* PUT that succeeded
C1_Witness ==
    /\ pc = "done"
    /\ file.kind = "scalar"
    /\ template_ok = <<TRUE>>
    /\ success = <<FALSE>>
    /\ exit_code = <<1>>

\* the input is loaded and prepare_bulk_data builds a payload from it
Uploadable ==
    /\ file.kind \in {"object", "array"}
    /\ \A i \in 1..Len(file.data) : file.data[i].isDict
    /\ data_type = s_auto /\ file.data # <<>> /\ "metricName" \in DOMAIN file.data[1].fields
          => file.data[1].fields["metricName"].t = "str"

\* C2: the exit code is 0 exactly when the bulk upload succeeded and 1
\* otherwise; whatever the template PUT returned, the input file is read, the
\* bulk upload is attempted on an input that yields a payload, and the exit
\* code is a function of the input and the bulk answer alone.
C2_ExitCodeIsUploadResult ==
    pc = "done" =>
        /\ template_ok \in {<<TRUE>>, <<FALSE>>}
        /\ file_opened
        /\ Issued(BulkRequest) = (IF Uploadable THEN 1 ELSE 0)
        /\ exit_code =
              IF /\ Uploadable
                 /\ response # <<>>
                 /\ HttpSucceeded(response[1])
                 /\ response[1].errors # "true"
              THEN <<0>> ELSE <<1>>

\* a run whose template PUT failed and whose upload succeeded exits with 0
C2_Witness ==
    /\ pc = "done"
    /\ template_ok = <<FALSE>>
    /\ Issued(BulkRequest) = 1
    /\ success = <<TRUE>>
    /\ exit_code = <<0>>

\* C10: the template PUT is issued exactly once, before any bulk POST; the
\* bulk POST is issued at most once, exactly once for a built payload, and
\* nothing is sent again after a failure.
C10_RequestOrder ==
    /\ Issued(TemplateRequest) = (IF pc = "start" THEN 0 ELSE 1)
    /\ Issued(BulkRequest) <= 1
    /\ \A k \in 1..Len(requests) :
          requests[k] = BulkRequest =>
              \E j \in 1..(k - 1) : requests[j] = TemplateRequest
    /\ Len(requests) = Issued(TemplateRequest) + Issued(BulkRequest)
    /\ pc \in {"returned", "done"} =>
          Issued(BulkRequest) = (IF bulk_data # <<>> THEN 1 ELSE 0)
    /\ bulk_data = <<>> => Issued(BulkRequest) = 0

\* a run whose bulk POST got a partial-failure answer ends having sent the
\* template PUT and one bulk POST
C10_Witness ==
    /\ pc = "done"
    /\ response # <<>> /\ response[1].net = "ok" /\ response[1].errors = "true"
    /\ success = <<FALSE>>
    /\ requests = <<TemplateRequest, BulkRequest>>

=============================================================================
